---- MODULE Spec2Model ----
(***************************************************************************)
(* A model of business_rules/operators.py: the typed operator catalog.     *)
(*                                                                         *)
(* Python values are records [t, s, n, f, l]: t is the runtime kind, s the *)
(* characters of a str, n the number of an int or bool, l the items of a   *)
(* list.  A str is a sequence of one-character strings, so that            *)
(* startswith, replace and lower are computed, not assumed.  A Decimal or  *)
(* float is the exact number n * 10^-7 + f * 10^-36: n counts tenths of    *)
(* EPSILON, f counts a unit that lies below the 28 significant digits the  *)
(* decimal context keeps once n is not zero.                               *)
(***************************************************************************)
EXTENDS Integers, Sequences, FiniteSets, TLC

(* ------------------------------ bounds --------------------------------- *)
\* Largest number of rows of the table of a DataframeType bundle.
MaxRows == 2
\* Largest number of calls of the column-writing operators on one bundle.
MaxCalls == 2
\* Largest numeric value built, in units of 10^-7 (EPSILON is 10 of them).
MaxUnits == 11
\* Largest digits of a numeric value below 10^-7, in units of 10^-36.
MaxTail == 1
\* the longest list handed to a select type
MaxLen == 2

(* --------------------------- Python values ----------------------------- *)
V(t, s, n, f, l) == [t |-> t, s |-> s, n |-> n, f |-> f, l |-> l]
Str(s) == V("str", s, 0, 0, <<>>)
PyNone == V("none", <<>>, 0, 0, <<>>)
NaN == V("nan", <<>>, 0, 0, <<>>)
NA == V("NA", <<>>, 0, 0, <<>>)
PyInt(n) == V("int", <<>>, n, 0, <<>>)
\* the Python bool and numpy.bool_ are different kinds: they differ under ~
PyBool(b) == V("bool", <<>>, IF b THEN 1 ELSE 0, 0, <<>>)
NpBool(b) == V("bool_", <<>>, IF b THEN 1 ELSE 0, 0, <<>>)
List(l) == V("list", <<>>, 0, 0, l)
PyFloat(n, f) == V("float", <<>>, n, f, <<>>)
Decimal(n, f) == V("Decimal", <<>>, n, f, <<>>)
\* a pandas.DataFrame given as a raw value; its cells play no part there
DataFrame == V("DataFrame", <<>>, 0, 0, <<>>)
EmptyStr == Str(<<>>)

IsStr(v) == v.t = "str"
IsList(v) == v.t = "list"
\* Python truthiness of a value (bool(v))
Truthy(v) ==
  CASE v.t = "none" -> FALSE
    [] v.t = "str" -> v.s # <<>>
    [] v.t = "int" -> v.n # 0
    [] v.t \in {"bool", "bool_"} -> v.n # 0
    [] v.t = "list" -> v.l # <<>>
    [] v.t \in {"float", "Decimal"} -> v.n # 0 \/ v.f # 0
    [] OTHER -> TRUE

\* str.lower() on one character
LowerChar(c) ==
  CASE c = "A" -> "a"
    [] c = "B" -> "b"
    [] OTHER -> c
LowerSeq(s) == [i \in 1..Len(s) |-> LowerChar(s[i])]

\* str.startswith(prefix)
StartsWith(s, p) == Len(p) <= Len(s) /\ SubSeq(s, 1, Len(p)) = p
\* s.replace(p, r, 1) when s starts with p: the first occurrence is the prefix
ReplaceFirst(s, p, r) == r \o SubSeq(s, Len(p) + 1, Len(s))

(* ------------------------- results of a call --------------------------- *)
\* What a call hands back: a pandas Series (dtype and entries), a plain
\* Python bool, or a raised exception.
Series(dtype, vals) == [kind |-> "series", dtype |-> dtype, vals |-> vals, exc |-> ""]
Scalar(b) == [kind |-> "scalar", dtype |-> "", vals |-> <<PyBool(b)>>, exc |-> ""]
Raise(e) == [kind |-> "raise", dtype |-> "", vals |-> <<>>, exc |-> e]
NoResult == [kind |-> "none", dtype |-> "", vals |-> <<>>, exc |-> ""]
BoolSeries(f) == Series("bool", [i \in DOMAIN f |-> NpBool(f[i])])

VARIABLES
  value,                \* DataframeType.value: column name -> cells
  column_prefix_map,    \* DataframeType.column_prefix_map, in dict order
  relationship_data,    \* DataframeType.relationship_data: key -> values
  value_level_metadata, \* DataframeType.value_level_metadata
  pc,                   \* the caller: "idle" or "returned"
  op,                   \* name of the operator last called
  arg,                  \* the argument record as the caller built it
  argOut,               \* the same record object after the call
  result,               \* what the call returned or raised
  looked,               \* the (role, name) pairs the call looked up as columns
  calls,                \* calls made so far of the two column-writing operators
  uuids,                \* uuid4() values drawn so far
  self_type,            \* the class of the scalar instance, "" while there is none
  given,                \* the value the scalar instance was constructed from
  self_value,           \* self.value of the scalar instance
  other                 \* the argument of the scalar call, as passed

vars == <<value, column_prefix_map, relationship_data, value_level_metadata,
          pc, op, arg, argOut, result, looked, calls, uuids,
          self_type, given, self_value, other>>
scalar_vars == <<self_type, given, self_value, other>>
frame_vars == <<value, column_prefix_map, relationship_data, value_level_metadata,
                arg, argOut, looked, calls, uuids>>

(* ----------------------- pandas, as the code uses it ------------------- *)
\* len(df): the number of rows
NRows(df) == Len(df[CHOOSE c \in DOMAIN df : TRUE])
\* `name in df` / df[name] succeeds: the name is a str naming a column
HasCol(df, v) == IsStr(v) /\ v.s \in DOMAIN df
\* pandas.isna on one cell
IsNull(c) == c.t \in {"none", "nan", "NA"}
\* element of Series.eq / ==: a missing cell on either side compares unequal
CellEq(a, b) == ~IsNull(a) /\ ~IsNull(b) /\ a = b
\* element of Series.isin(["", None])
IsInEmpty(c) == c = EmptyStr \/ c = PyNone
\* element of Series.str.lower(): NaN for a cell that is not a str
LowerCell(c) == IF IsStr(c) THEN Str(LowerSeq(c.s)) ELSE NaN

\* ~ on a Series: logical not on dtype bool; on dtype object Python's ~ of
\* each entry (numpy.bool_ -> not, NA -> NA, bool and int -> -x-1), and a
\* TypeError when an entry has no ~ (None, a float such as NaN, a str).
InvertCell(c) ==
  CASE c.t = "bool_" -> NpBool(c.n = 0)
    [] c.t = "NA" -> NA
    [] OTHER -> PyInt(-c.n - 1)
HasInvert(c) == c.t \in {"bool_", "NA", "bool", "int"}
Invert(r) ==
  IF r.kind # "series" THEN r
  ELSE IF \E i \in DOMAIN r.vals : ~HasInvert(r.vals[i]) THEN Raise("TypeError")
  ELSE Series(r.dtype, [i \in DOMAIN r.vals |-> InvertCell(r.vals[i])])
\* Python's `not` on a returned bool; an exception propagates
Not(r) == IF r.kind = "scalar" THEN Scalar(~Truthy(r.vals[1])) ELSE r

\* What an operator body does: what it returns or raises, the argument
\* record and the table as it leaves them, and the names it looked up.
Out(ret, a, df, lk) == [ret |-> ret, arg |-> a, df |-> df, looked |-> lk]
WithRet(o, ret) == [o EXCEPT !.ret = ret]

(* --------------------------- order and groups -------------------------- *)
\* ord() of the characters the tables use
Ord(c) ==
  CASE c = "-" -> 45
    [] c = "1" -> 49
    [] c = "2" -> 50
    [] c = "A" -> 65
    [] c = "B" -> 66
    [] c = "E" -> 69
    [] c = "X" -> 88
    [] c = "Y" -> 89
    [] c = "Z" -> 90
    [] c = "a" -> 97
    [] c = "b" -> 98
    [] OTHER -> 127
\* s < t on two str
StrLess(s, t) ==
  \E k \in 1..(Len(s) + 1) :
    /\ k <= Len(t)
    /\ \A j \in 1..(k - 1) : s[j] = t[j]
    /\ (k = Len(s) + 1 \/ Ord(s[k]) < Ord(t[k]))
\* a < b on two cells of one kind
ValLess(a, b) == IF IsStr(a) /\ IsStr(b) THEN StrLess(a.s, b.s) ELSE a.n < b.n
\* the order sort_values and groupby use: missing cells last
CellLess(a, b) ==
  IF IsNull(a) THEN FALSE ELSE IF IsNull(b) THEN TRUE ELSE ValLess(a, b)

\* The indices S ordered by their cell of col, ties in index order (numpy
\* sorts arrays this short by insertion, which is stable).
RECURSIVE SortIdx(_, _)
SortIdx(S, col) ==
  IF S = {} THEN <<>>
  ELSE LET m == CHOOSE i \in S : \A j \in S :
                  \/ i = j
                  \/ CellLess(col[i], col[j])
                  \/ (~CellLess(col[j], col[i]) /\ i < j)
       IN <<m>> \o SortIdx(S \ {m}, col)

\* the members of a set of cells in ascending order
RECURSIVE SortCells(_)
SortCells(S) ==
  IF S = {} THEN <<>>
  ELSE LET m == CHOOSE a \in S : \A b \in S : a = b \/ CellLess(a, b)
       IN <<m>> \o SortCells(S \ {m})

\* groupby(key) over the rows `order` (a sequence of row indices): the group
\* keys ascending, rows whose key is missing dropped (dropna), and each
\* group's rows in the order given.
GroupKeys(col, order) ==
  SortCells({col[order[i]] : i \in {j \in DOMAIN order : ~IsNull(col[order[j]])}})
SelectIdx(order, col, key) ==
  LET F[i \in 0..Len(order)] ==
        IF i = 0 THEN <<>>
        ELSE IF col[order[i]] = key THEN Append(F[i - 1], order[i]) ELSE F[i - 1]
  IN F[Len(order)]
\* the groups, each a sequence of row indices
Groups(col, order) ==
  LET keys == GroupKeys(col, order)
  IN [g \in DOMAIN keys |-> SelectIdx(order, col, keys[g])]

\* concatenation of a sequence of sequences (Series.explode().tolist())
RECURSIVE Flatten(_)
Flatten(ss) == IF ss = <<>> THEN <<>> ELSE Head(ss) \o Flatten(Tail(ss))

RowOrder(df) == [i \in 1..NRows(df) |-> i]
Range(f) == {f[i] : i \in DOMAIN f}

(* ----------------------------- DataframeType --------------------------- *)
replace_prefix(v) ==
  IF IsStr(v)
  THEN LET hits == {i \in DOMAIN column_prefix_map :
                      StartsWith(v.s, column_prefix_map[i][1])}
       IN IF hits = {} THEN v
          ELSE LET i == CHOOSE j \in hits : \A k \in hits : j <= k
               IN Str(ReplaceFirst(v.s, column_prefix_map[i][1],
                                   column_prefix_map[i][2]))
  ELSE v

\* Comparison data: a column of the table, a literal, or (a list of column
\* names handed to DataFrame.get) a sub-frame.
ColData(c) == [k |-> "col", col |-> c, lit |-> PyNone]
LitData(v) == [k |-> "lit", col |-> <<>>, lit |-> v]
FrameData(v) == [k |-> "frame", col |-> <<>>, lit |-> v]

get_comparator_data(df, comparator, value_is_literal) ==
  IF value_is_literal THEN LitData(comparator)
  ELSE IF HasCol(df, comparator) THEN ColData(df[comparator.s])
  ELSE IF IsList(comparator) /\ \A i \in DOMAIN comparator.l : HasCol(df, comparator.l[i])
       THEN FrameData(comparator)
  ELSE LitData(comparator)

\* data.str.lower() on a column, data.lower() on anything else: only a str
\* has lower()
convert_string_data_to_lower(data) ==
  IF data.k = "col" THEN ColData([i \in DOMAIN data.col |-> LowerCell(data.col[i])])
  ELSE IF data.k = "lit" /\ IsStr(data.lit) THEN LitData(Str(LowerSeq(data.lit.s)))
  ELSE [k |-> "raise", col |-> <<>>, lit |-> PyNone]

\* entry i of column.eq(data) / column == data
EqData(col, data, i) ==
  IF data.k = "col" THEN CellEq(col[i], data.col[i]) ELSE CellEq(col[i], data.lit)

\* the (role, name) pairs of the usual target / comparator resolution
TargetLook(target) == {<<"target", target>>}
ComparatorLook(comparator, lit) == IF lit THEN {} ELSE {<<"comparator", comparator>>}

exists(df, other_value) ==
  LET target == replace_prefix(other_value.target)
  IN Out(Scalar(HasCol(df, target)), other_value, df, TargetLook(target))

not_exists(df, other_value) ==
  LET o == exists(df, other_value) IN WithRet(o, Not(o.ret))

equal_to(df, other_value) ==
  LET target == replace_prefix(other_value.target)
      lit == other_value.value_is_literal
      comparator == IF ~lit THEN replace_prefix(other_value.comparator)
                    ELSE other_value.comparator
      data == get_comparator_data(df, comparator, lit)
      lk == ComparatorLook(comparator, lit) \cup TargetLook(target)
  IN IF ~HasCol(df, target) THEN Out(Raise("KeyError"), other_value, df, lk)
     ELSE LET col == df[target.s]
          IN Out(BoolSeries([i \in DOMAIN col |->
                   EqData(col, data, i) /\ ~IsInEmpty(col[i])]),
                 other_value, df, lk)

equal_to_case_insensitive(df, other_value) ==
  LET target == replace_prefix(other_value.target)
      lit == other_value.value_is_literal
      comparator == IF ~lit THEN replace_prefix(other_value.comparator)
                    ELSE other_value.comparator
      data == convert_string_data_to_lower(get_comparator_data(df, comparator, lit))
      lk == ComparatorLook(comparator, lit) \cup TargetLook(target)
  IN IF data.k = "raise"
     THEN Out(Raise("AttributeError"), other_value, df, ComparatorLook(comparator, lit))
     ELSE IF ~HasCol(df, target) THEN Out(Raise("KeyError"), other_value, df, lk)
     ELSE LET col == df[target.s]
          IN Out(BoolSeries([i \in DOMAIN col |->
                   EqData([j \in DOMAIN col |-> LowerCell(col[j])], data, i)
                   /\ ~IsInEmpty(col[i])]),
                 other_value, df, lk)

\* is_column_of_iterables is False on a column of str and missing cells, and
\* isinstance(comparator, Series) tests the name, never a Series: what runs
\* is np.where(self.value[target] == comparison_data, True, False)
contains(df, other_value) ==
  LET target == replace_prefix(other_value.target)
      lit == other_value.value_is_literal
      comparator == IF ~lit THEN replace_prefix(other_value.comparator)
                    ELSE other_value.comparator
      data == get_comparator_data(df, comparator, lit)
      lk == ComparatorLook(comparator, lit) \cup TargetLook(target)
  IN IF ~HasCol(df, target) THEN Out(Raise("KeyError"), other_value, df, lk)
     ELSE LET col == df[target.s]
          IN Out(BoolSeries([i \in DOMAIN col |-> EqData(col, data, i)]),
                 other_value, df, lk)

contains_case_insensitive(df, other_value) ==
  LET target == replace_prefix(other_value.target)
      lit == other_value.value_is_literal
      comparator == IF ~lit THEN replace_prefix(other_value.comparator)
                    ELSE other_value.comparator
      data == convert_string_data_to_lower(get_comparator_data(df, comparator, lit))
      lk == ComparatorLook(comparator, lit) \cup TargetLook(target)
  IN IF data.k = "raise"
     THEN Out(Raise("AttributeError"), other_value, df, ComparatorLook(comparator, lit))
     ELSE IF ~HasCol(df, target) THEN Out(Raise("KeyError"), other_value, df, lk)
     ELSE LET col == df[target.s]
          IN Out(BoolSeries([i \in DOMAIN col |->
                   EqData([j \in DOMAIN col |-> LowerCell(col[j])], data, i)]),
                 other_value, df, lk)

\* self.value[target].isin(comparison_data): isin of a column tests its
\* cells, of a list its items, of a DataFrame its column labels (isin takes
\* list(values)); anything that is not list-like is refused with TypeError.
\* A missing cell is found when the data holds a missing value.
is_contained_by(df, other_value) ==
  LET target == replace_prefix(other_value.target)
      lit == other_value.value_is_literal
      comparator == IF IsStr(other_value.comparator) /\ ~lit
                    THEN replace_prefix(other_value.comparator)
                    ELSE other_value.comparator
      data == get_comparator_data(df, comparator, lit)
      lk == ComparatorLook(comparator, lit) \cup TargetLook(target)
      items == IF data.k = "col" THEN Range(data.col) ELSE Range(data.lit.l)
  IN IF ~HasCol(df, target) THEN Out(Raise("KeyError"), other_value, df, lk)
     ELSE IF data.k = "lit" /\ ~IsList(data.lit)
     THEN Out(Raise("TypeError"), other_value, df, lk)
     ELSE LET col == df[target.s]
          IN Out(BoolSeries([i \in DOMAIN col |->
                   \E v \in items : v = col[i] \/ (IsNull(v) /\ IsNull(col[i]))]),
                 other_value, df, lk)

not_equal_to_case_insensitive(df, other_value) ==
  LET o == equal_to_case_insensitive(df, other_value) IN WithRet(o, Invert(o.ret))

not_equal_to(df, other_value) ==
  LET o == equal_to(df, other_value) IN WithRet(o, Invert(o.ret))

\* re.match(pat, s) for a pattern without metacharacters
re_match(pat, s) == StartsWith(s, pat)

\* self.value[target].str.match(comparator): a cell that is not a str gives
\* NaN, and then the column is of dtype object holding Python bools
matches_regex(df, other_value) ==
  LET target == replace_prefix(other_value.target)
      comparator == other_value.comparator
  IN IF ~HasCol(df, target)
     THEN Out(Raise("KeyError"), other_value, df, TargetLook(target))
     ELSE IF ~IsStr(comparator)
     THEN Out(Raise("TypeError"), other_value, df, TargetLook(target))
     ELSE LET col == df[target.s]
              results == [i \in DOMAIN col |->
                            IF IsStr(col[i]) THEN PyBool(re_match(comparator.s, col[i].s))
                            ELSE NaN]
          IN Out(IF \A i \in DOMAIN col : IsStr(col[i])
                 THEN BoolSeries([i \in DOMAIN col |-> results[i] = PyBool(TRUE)])
                 ELSE Series("object", results),
                 other_value, df, TargetLook(target))

not_matches_regex(df, other_value) ==
  LET o == matches_regex(df, other_value) IN WithRet(o, Invert(o.ret))

empty(df, other_value) ==
  LET target == replace_prefix(other_value.target)
  IN IF ~HasCol(df, target)
     THEN Out(Raise("KeyError"), other_value, df, TargetLook(target))
     ELSE Out(BoolSeries([i \in DOMAIN df[target.s] |-> IsInEmpty(df[target.s][i])]),
              other_value, df, TargetLook(target))

non_empty(df, other_value) ==
  LET o == empty(df, other_value) IN WithRet(o, Invert(o.ret))

contains_all(df, other_value) ==
  LET target == replace_prefix(other_value.target)
      raw == other_value.comparator
      comparator == IF IsList(raw) THEN raw ELSE replace_prefix(raw)
      lk == (IF IsList(raw) THEN {} ELSE {<<"comparator", comparator>>})
  IN IF ~IsList(raw) /\ ~HasCol(df, comparator)
     THEN Out(Raise("KeyError"), other_value, df, lk)
     ELSE IF ~HasCol(df, target)
     THEN Out(Raise("KeyError"), other_value, df, lk \cup TargetLook(target))
     ELSE LET values == IF IsList(raw) THEN Range(raw.l) ELSE Range(df[comparator.s])
          IN Out(Scalar(values \subseteq Range(df[target.s])),
                 other_value, df, lk \cup TargetLook(target))

not_contains_all(df, other_value) ==
  LET o == contains_all(df, other_value) IN WithRet(o, Not(o.ret))

\* rewrites the list it is given, item by item, and returns that same list
replace_all_prefixes(values) == [i \in DOMAIN values |-> replace_prefix(values[i])]

\* counts <= 1 of groupby(names)[target].transform('size'): the size of the
\* row's group; a row with a missing key cell is in no group (NaN)
UniqueRow(df, names, i) ==
  /\ \A k \in DOMAIN names : ~IsNull(df[names[k].s][i])
  /\ Cardinality({j \in 1..NRows(df) :
                    \A k \in DOMAIN names : df[names[k].s][j] = df[names[k].s][i]}) <= 1

is_unique_set(df, other_value) ==
  LET target == replace_prefix(other_value.target)
      val == other_value.comparator
      \* value.append(target) and replace_all_prefixes act on the caller's list
      target_data == replace_all_prefixes(
                       IF IsList(val) THEN Append(val.l, target) ELSE <<val, target>>)
      after == IF IsList(val) THEN [other_value EXCEPT !.comparator = List(target_data)]
               ELSE other_value
      lk == {<<IF k = Len(target_data) THEN "target" ELSE "comparator", target_data[k]>> :
               k \in DOMAIN target_data}
  IN IF \E k \in DOMAIN target_data : ~HasCol(df, target_data[k])
     THEN Out(Raise("KeyError"), after, df, lk)
     ELSE IF \E j, k \in DOMAIN target_data : j # k /\ target_data[j] = target_data[k]
     THEN Out(Raise("ValueError"), after, df, lk)
     ELSE Out(BoolSeries([i \in 1..NRows(df) |-> UniqueRow(df, target_data, i)]),
              after, df, lk)

is_not_unique_relationship_one_sided(df, other_value) ==
  LET target == replace_prefix(other_value.target)
      comparator == replace_prefix(other_value.comparator)
      lk == {<<"target", target>>, <<"comparator", comparator>>}
  IN IF IsList(other_value.comparator) \/ ~HasCol(df, target) \/ ~HasCol(df, comparator)
     THEN Out(Raise("KeyError"), other_value, df, lk)
     ELSE LET t == df[target.s]
              c == df[comparator.s]
              pairs == {<<t[i], c[i]>> : i \in DOMAIN t}
              dupC == {q[2] : q \in {x \in pairs : \E y \in pairs : y # x /\ y[2] = x[2]}}
          IN Out(BoolSeries([i \in DOMAIN t |-> c[i] \in dupC]), other_value, df, lk)

is_not_unique_relationship(df, other_value) ==
  LET target == replace_prefix(other_value.target)
      raw == other_value.comparator
      after == IF IsList(raw)
               THEN [other_value EXCEPT !.comparator = List(replace_all_prefixes(raw.l))]
               ELSE other_value
      comparator == IF IsList(raw) THEN after.comparator ELSE replace_prefix(raw)
      lk == {<<"target", target>>, <<"comparator", comparator>>}
  IN IF IsList(raw) THEN Out(Raise("TypeError"), after, df, {<<"target", target>>})
     ELSE IF ~HasCol(df, target) \/ ~HasCol(df, comparator)
     THEN Out(Raise("KeyError"), after, df, lk)
     ELSE LET t == df[target.s]
              c == df[comparator.s]
              \* self.value[[target, comparator]].drop_duplicates()
              pairs == {<<t[i], c[i]>> : i \in DOMAIN t}
              \* .duplicated(keep=False) of each side of the distinct pairs
              dupC == {q[2] : q \in {x \in pairs : \E y \in pairs : y # x /\ y[2] = x[2]}}
              dupT == {q[1] : q \in {x \in pairs : \E y \in pairs : y # x /\ y[1] = x[1]}}
          IN Out(BoolSeries([i \in DOMAIN t |->
                   \/ (dupC # {} /\ c[i] \in dupC)
                   \/ (dupT # {} /\ t[i] \in dupT)]),
                 after, df, lk)

is_unique_relationship(df, other_value) ==
  LET o == is_not_unique_relationship(df, other_value) IN WithRet(o, Invert(o.ret))

is_not_unique_set(df, other_value) ==
  LET o == is_unique_set(df, other_value) IN WithRet(o, Invert(o.ret))

\* sorted(x) == x on a Python list of cells: < between None and anything
\* raises TypeError as soon as the list has two items
SortedRaises(xs) == Len(xs) >= 2 /\ \E i \in DOMAIN xs : IsNull(xs[i])
IsSortedList(xs) == \A i \in 1..(Len(xs) - 1) : ~ValLess(xs[i + 1], xs[i])

\* the same chain entered without the isinstance(value, list) test
OrderedGroups_without_list_test(df, target, val) ==
  IF ~IsStr(val) THEN Raise("TypeError")
  ELSE IF ~HasCol(df, val) THEN Raise("KeyError")
  ELSE IF ~HasCol(df, target) \/ target = val THEN Raise("KeyError")
  ELSE LET groups == Groups(df[val.s], RowOrder(df))
           lists == [g \in DOMAIN groups |->
                       [i \in DOMAIN groups[g] |-> df[target.s][groups[g][i]]]]
       IN IF \E g \in DOMAIN lists : SortedRaises(lists[g]) THEN Raise("TypeError")
          ELSE Series("list", [g \in DOMAIN lists |-> PyBool(IsSortedList(lists[g]))])

\* the list groupby(value).agg(list)[target].map(sorted(x) == x).tolist(),
\* or the exception the chain raises
OrderedGroups(df, target, val) ==
  IF IsList(val) THEN Raise("Exception")
  ELSE IF ~IsStr(val) THEN Raise("TypeError")
  ELSE IF ~HasCol(df, val) THEN Raise("KeyError")
  \* the grouping column is the index of the aggregate, not one of its columns
  ELSE IF ~HasCol(df, target) \/ target = val THEN Raise("KeyError")
  ELSE LET groups == Groups(df[val.s], RowOrder(df))
           lists == [g \in DOMAIN groups |->
                       [i \in DOMAIN groups[g] |-> df[target.s][groups[g][i]]]]
       IN IF \E g \in DOMAIN lists : SortedRaises(lists[g]) THEN Raise("TypeError")
          ELSE Series("list", [g \in DOMAIN lists |-> PyBool(IsSortedList(lists[g]))])

OrderedLook(target, val) ==
  IF IsList(val) THEN {} ELSE {<<"comparator", val>>, <<"target", target>>}

is_ordered_set(df, other_value) ==
  LET target == replace_prefix(other_value.target)
      val == other_value.comparator
      r == OrderedGroups(df, target, val)
  IN Out(IF r.kind = "raise" THEN r ELSE Scalar(~(PyBool(FALSE) \in Range(r.vals))),
         other_value, df, OrderedLook(target, val))

is_not_ordered_set(df, other_value) ==
  LET target == replace_prefix(other_value.target)
      val == other_value.comparator
      r == OrderedGroups(df, target, val)
  IN Out(IF r.kind = "raise" THEN r ELSE Scalar(PyBool(FALSE) \in Range(r.vals)),
         other_value, df, OrderedLook(target, val))

is_valid_reference(df, other_value) ==
  LET target == replace_prefix(other_value.target)
      context == replace_prefix(other_value.context)
      lk == TargetLook(target) \cup (IF Truthy(context) THEN {<<"context", context>>} ELSE {})
  IN IF ~HasCol(df, target) \/ (Truthy(context) /\ ~HasCol(df, context))
     THEN Out(Raise("KeyError"), other_value, df, lk)
     ELSE IF Truthy(context)
     THEN Out(BoolSeries([i \in 1..NRows(df) |->
                \* row[target] in self.relationship_data.get(row[context], {})
                /\ df[context.s][i] \in DOMAIN relationship_data
                /\ df[target.s][i] \in DOMAIN relationship_data[df[context.s][i]]]),
              other_value, df, lk)
     ELSE Out(BoolSeries([i \in 1..NRows(df) |-> df[target.s][i] \in DOMAIN relationship_data]),
              other_value, df, lk)

is_not_valid_reference(df, other_value) ==
  LET o == is_valid_reference(df, other_value) IN WithRet(o, Invert(o.ret))

\* one row predicate of a value-level-metadata record, applied to row i
RowPred(p, df, i) ==
  CASE p = "x_given" -> ~IsInEmpty(df[<<"A", "E", "X">>][i])
    [] p = "y_lower" -> df[<<"A", "E", "Y">>][i] = Str(<<"a">>)
    [] OTHER -> TRUE

\* results = False; for vlm in ...: results |= apply(filter and [not] check);
\* pd.Series(results.values): with no record, results is still the bool False
VlmOperator(df, other_value, check, negate) ==
  IF value_level_metadata = <<>>
  THEN Out(Raise("AttributeError"), other_value, df, {})
  ELSE Out(BoolSeries([i \in 1..NRows(df) |->
             \E k \in DOMAIN value_level_metadata :
               /\ RowPred(value_level_metadata[k].filter, df, i)
               /\ (RowPred(value_level_metadata[k][check], df, i) # negate)]),
           other_value, df, {})

non_conformant_value_data_type(df, other_value) ==
  VlmOperator(df, other_value, "type_check", TRUE)
non_conformant_value_length(df, other_value) ==
  VlmOperator(df, other_value, "length_check", TRUE)
conformant_value_data_type(df, other_value) ==
  VlmOperator(df, other_value, "type_check", FALSE)
conformant_value_length(df, other_value) ==
  VlmOperator(df, other_value, "length_check", FALSE)

\* == between two Python objects, as numpy applies it to object arrays
PyEq(a, b) == a.t # "nan" /\ a = b

\* the comparison taken on the same row instead of the next one
compare_target_with_comparator_same_row(df, rows, target, comparator) ==
  [i \in 1..Len(rows) |->
     IF i < Len(rows)
     THEN NpBool(PyEq(df[target.s][rows[i]], df[comparator.s][rows[i]]))
     ELSE NA]

\* rows: the rows of one group, in order.  [*results, pandas.NA]
compare_target_with_comparator_next_row(df, rows, target, comparator) ==
  [i \in 1..Len(rows) |->
     IF i < Len(rows)
     THEN NpBool(PyEq(df[target.s][rows[i]], df[comparator.s][rows[i + 1]]))
     ELSE NA]

\* pd.Series(list): dtype bool when every item is a bool, else object
SeriesOf(vals) ==
  Series(IF \A i \in DOMAIN vals : vals[i].t \in {"bool", "bool_"} THEN "bool" ELSE "object",
         [i \in DOMAIN vals |-> IF vals[i].t = "bool" THEN NpBool(vals[i].n # 0) ELSE vals[i]])

has_next_corresponding_record(df, other_value) ==
  LET target == replace_prefix(other_value.target)
      comparator == replace_prefix(other_value.comparator)
      group_by_column == replace_prefix(other_value.within)
      order_by_column == replace_prefix(other_value.ordering)
      lk == {<<"target", target>>, <<"comparator", comparator>>,
             <<"within", group_by_column>>, <<"ordering", order_by_column>>}
  IN IF ~HasCol(df, order_by_column) \/ ~HasCol(df, group_by_column)
        \/ ~HasCol(df, target) \/ ~HasCol(df, comparator)
     THEN Out(Raise("KeyError"), other_value, df, lk)
     ELSE LET ordered_df == SortIdx(1..NRows(df), df[order_by_column.s])
              grouped_df == Groups(df[group_by_column.s], ordered_df)
              results == [g \in DOMAIN grouped_df |->
                            compare_target_with_comparator_next_row(
                              df, grouped_df[g], target, comparator)]
          IN IF grouped_df = <<>>
             \* no group: apply gives an empty frame, which explode() refuses
             THEN Out(Raise("TypeError"), other_value, df, lk)
             ELSE Out(SeriesOf(Flatten(results)), other_value, df, lk)

does_not_have_next_corresponding_record(df, other_value) ==
  LET o == has_next_corresponding_record(df, other_value) IN WithRet(o, Invert(o.ret))

validate_series_length(ser, min_length) ==
  IF Len(ser) > min_length
  THEN [i \in 1..Len(ser) |-> PyBool(TRUE)]
  ELSE [i \in 1..min_length |-> PyBool(FALSE)]

present_on_multiple_rows_within(df, other_value) ==
  LET target == replace_prefix(other_value.target)
      min_count == IF Truthy(other_value.comparator) THEN other_value.comparator
                   ELSE PyInt(1)
      group_by_column == replace_prefix(other_value.within)
      lk == {<<"target", target>>, <<"within", group_by_column>>}
  IN IF ~HasCol(df, group_by_column) \/ ~HasCol(df, target)
     THEN Out(Raise("KeyError"), other_value, df, lk)
     ELSE IF min_count.t # "int" THEN Out(Raise("TypeError"), other_value, df, lk)
     ELSE LET grouped == Groups(df[group_by_column.s], RowOrder(df))
              results == [g \in DOMAIN grouped |->
                            validate_series_length(
                              [i \in DOMAIN grouped[g] |-> df[target.s][grouped[g][i]]],
                              min_count.n)]
          IN IF grouped = <<>> THEN Out(Raise("TypeError"), other_value, df, lk)
             ELSE Out(SeriesOf(Flatten(results)), other_value, df, lk)

not_present_on_multiple_rows_within(df, other_value) ==
  LET o == present_on_multiple_rows_within(df, other_value) IN WithRet(o, Invert(o.ret))

\* self.value[target].eq(self.value[target].sort_values(ignore_index=True)):
\* the sorted column has the missing cells last, and eq is False on them
is_ordered_by(df, other_value) ==
  LET target == replace_prefix(other_value.target)
  IN IF ~HasCol(df, target)
     THEN Out(Raise("KeyError"), other_value, df, TargetLook(target))
     ELSE LET col == df[target.s]
              order == SortIdx(DOMAIN col, col)
          IN Out(BoolSeries([i \in DOMAIN col |-> CellEq(col[i], col[order[i]])]),
                 other_value, df, TargetLook(target))

\* self.value.filter(regex=rf"^{target}\d+$"): the names of the columns that
\* are the target followed by digits and nothing else, in the table's column
\* order (the tables modelled keep their columns in name order)
Digits == {"1", "2"}
AdditionalColumns(df, target) ==
  LET names == {c \in DOMAIN df :
                  /\ Len(c) > Len(target.s)
                  /\ StartsWith(c, target.s)
                  /\ \A k \in (Len(target.s) + 1)..Len(c) : c[k] \in Digits}
      byName == SortCells({Str(c) : c \in names})
  IN [k \in DOMAIN byName |-> byName[k].s]

\* row: the cells of one row of the filtered frame.  The loop visits the
\* positions whose cell isin([[], {}, "", None]) and returns True at the first
\* one whose next position exists and holds something that `is not None`.
next_column_exists_and_previous_is_null(row) ==
  \E index \in DOMAIN row :
    /\ IsInEmpty(row[index])
    /\ index + 1 <= Len(row)
    /\ row[index + 1].t # "none"

additional_columns_empty(df, other_value) ==
  LET target == replace_prefix(other_value.target)
      cols == AdditionalColumns(df, target)
  IN Out(BoolSeries([r \in 1..NRows(df) |->
           next_column_exists_and_previous_is_null(
             [k \in DOMAIN cols |-> df[cols[k]][r]])]),
         other_value, df, TargetLook(target))

additional_columns_not_empty(df, other_value) ==
  LET o == additional_columns_empty(df, other_value) IN WithRet(o, Invert(o.ret))

\* uuid4(): the k-th value drawn differs from every value drawn before
uuid4(k) ==
  CASE k = 1 -> "uuid-1"
    [] k = 2 -> "uuid-2"
    [] k = 3 -> "uuid-3"
    [] OTHER -> "uuid-4"
\* f"result_{uuid4()}"
ResultName(k) == <<"result_", uuid4(k)>>

\* grouped_target.apply(lambda x: x[:-1]).apply(lambda x: x in ["", None]),
\* by row: the rows that are not the last of their group, each with its
\* verdict (negated for the non_empty variant)
ExceptLastRows(df, target, comparator) ==
  LET groups == Groups(df[comparator.s], RowOrder(df))
  IN Flatten([g \in DOMAIN groups |-> SubSeq(groups[g], 1, Len(groups[g]) - 1)])
\* x in ["", None] on one cell
InEmptyList(c) == c = EmptyStr \/ c = PyNone

WithinExceptLastRow(df, other_value, k, negate) ==
  LET target == replace_prefix(other_value.target)
      comparator == other_value.comparator
      lk == {<<"comparator", comparator>>, <<"target", target>>}
  IN IF ~IsStr(comparator) THEN Out(Raise("TypeError"), other_value, df, lk)
     ELSE IF ~HasCol(df, comparator) \/ ~HasCol(df, target)
     THEN Out(Raise("KeyError"), other_value, df, lk)
     ELSE LET rows == ExceptLastRows(df, target, comparator)
              results == [i \in DOMAIN rows |->
                            NpBool(InEmptyList(df[target.s][rows[i]]) # negate)]
              \* the assignment aligns on the row index: other rows get NaN
              column == [r \in 1..NRows(df) |->
                           IF \E i \in DOMAIN rows : rows[i] = r
                           THEN results[CHOOSE i \in DOMAIN rows : rows[i] = r]
                           ELSE NaN]
          IN Out(Scalar(IF negate THEN ~(NpBool(FALSE) \in Range(results))
                        ELSE NpBool(TRUE) \in Range(results)),
                 other_value,
                 [c \in DOMAIN df \cup {ResultName(k)} |->
                    IF c = ResultName(k) THEN column ELSE df[c]],
                 lk)

\* k: the number of the uuid4() draw the call makes
empty_within_except_last_row(df, other_value, k) ==
  WithinExceptLastRow(df, other_value, k, FALSE)

non_empty_within_except_last_row(df, other_value, k) ==
  WithinExceptLastRow(df, other_value, k, TRUE)

(* ------------------------------ dispatch ------------------------------- *)
\* getattr(DataframeType(bundle), name)(other_value)
Apply(name, df, other_value) ==
  CASE name = "exists" -> exists(df, other_value)
    [] name = "not_exists" -> not_exists(df, other_value)
    [] name = "equal_to" -> equal_to(df, other_value)
    [] name = "not_equal_to" -> not_equal_to(df, other_value)
    [] name = "equal_to_case_insensitive" -> equal_to_case_insensitive(df, other_value)
    [] name = "not_equal_to_case_insensitive" ->
         not_equal_to_case_insensitive(df, other_value)
    [] name = "matches_regex" -> matches_regex(df, other_value)
    [] name = "not_matches_regex" -> not_matches_regex(df, other_value)
    [] name = "is_ordered_by" -> is_ordered_by(df, other_value)
    [] name = "is_contained_by" -> is_contained_by(df, other_value)
    [] name = "additional_columns_empty" -> additional_columns_empty(df, other_value)
    [] name = "additional_columns_not_empty" ->
         additional_columns_not_empty(df, other_value)
    [] name = "contains" -> contains(df, other_value)
    [] name = "contains_case_insensitive" -> contains_case_insensitive(df, other_value)
    [] name = "empty" -> empty(df, other_value)
    [] name = "non_empty" -> non_empty(df, other_value)
    [] name = "contains_all" -> contains_all(df, other_value)
    [] name = "not_contains_all" -> not_contains_all(df, other_value)
    [] name = "is_unique_set" -> is_unique_set(df, other_value)
    [] name = "is_not_unique_set" -> is_not_unique_set(df, other_value)
    [] name = "is_unique_relationship" -> is_unique_relationship(df, other_value)
    [] name = "is_not_unique_relationship" -> is_not_unique_relationship(df, other_value)
    [] name = "is_ordered_set" -> is_ordered_set(df, other_value)
    [] name = "is_not_ordered_set" -> is_not_ordered_set(df, other_value)
    [] name = "is_valid_reference" -> is_valid_reference(df, other_value)
    [] name = "is_not_valid_reference" -> is_not_valid_reference(df, other_value)
    [] name = "non_conformant_value_data_type" ->
         non_conformant_value_data_type(df, other_value)
    [] name = "non_conformant_value_length" -> non_conformant_value_length(df, other_value)
    [] name = "conformant_value_data_type" -> conformant_value_data_type(df, other_value)
    [] name = "conformant_value_length" -> conformant_value_length(df, other_value)
    [] name = "has_next_corresponding_record" ->
         has_next_corresponding_record(df, other_value)
    [] name = "does_not_have_next_corresponding_record" ->
         does_not_have_next_corresponding_record(df, other_value)
    [] name = "present_on_multiple_rows_within" ->
         present_on_multiple_rows_within(df, other_value)
    [] name = "not_present_on_multiple_rows_within" ->
         not_present_on_multiple_rows_within(df, other_value)

(* ------------------------- tables and arguments ------------------------ *)
AEX == <<"A", "E", "X">>
AEY == <<"A", "E", "Y">>
\* the generic forms "--X", "--Y" and a name no column has
GenX == <<"-", "-", "X">>
GenY == <<"-", "-", "Y">>
Absent == <<"Z">>

\* cells of the two columns: AEX may be empty or missing, AEY differs by case
XCells == {EmptyStr, PyNone, Str(<<"a">>)}
YCells == {Str(<<"a">>), Str(<<"A">>)}

\* an argument record; a key the caller leaves out reads as None
OV(target, comparator, lit, within, ordering, context) ==
  [target |-> target, comparator |-> comparator, value_is_literal |-> lit,
   within |-> within, ordering |-> ordering, context |-> context]
NoArg == OV(PyNone, PyNone, FALSE, PyNone, PyNone, PyNone)
TC(target, comparator, lit) == OV(target, comparator, lit, PyNone, PyNone, PyNone)

TargetNames == {Str(AEX), Str(AEY), Str(GenX), Str(Absent)}
ComparatorNames == {Str(AEX), Str(AEY), Str(GenY)}
Literals == {Str(<<"a">>), Str(<<"A">>), EmptyStr, PyNone}
NameLists == {List(<<Str(AEY)>>), List(<<Str(GenY)>>)}

TargetArgs == {TC(t, PyNone, FALSE) : t \in TargetNames}
CompareArgs ==
  {TC(t, c, FALSE) : t \in TargetNames, c \in ComparatorNames \cup {Str(<<"a">>)}}
  \cup {TC(t, c, TRUE) : t \in TargetNames, c \in Literals}
ContainsArgs ==
  {TC(t, c, FALSE) : t \in {Str(AEX), Str(GenX), Str(Absent)},
                     c \in {Str(AEY), Str(GenY), Str(<<"a">>)}}
  \cup {TC(Str(AEX), c, TRUE) : c \in {Str(<<"A">>), PyNone}}
ContainedArgs ==
  {TC(t, c, lit) :
     t \in {Str(AEX), Str(GenX), Str(Absent)},
     c \in NameLists \cup {List(<<Str(<<"a">>), EmptyStr>>), Str(AEY), Str(GenY)},
     lit \in BOOLEAN}
RegexArgs ==
  {TC(t, p, FALSE) : t \in {Str(AEX), Str(GenX), Str(Absent)}, p \in {Str(<<"a">>), EmptyStr}}
SetArgs == {TC(t, c, FALSE) : t \in TargetNames, c \in ComparatorNames \cup NameLists}
ReferenceArgs ==
  {OV(t, PyNone, FALSE, PyNone, PyNone, c) :
     t \in TargetNames, c \in {PyNone, Str(AEY), Str(GenY)}}
NextRecordArgs ==
  {OV(t, c, FALSE, w, o, PyNone) :
     t \in {Str(AEX), Str(AEY), Str(Absent)}, c \in ComparatorNames,
     w \in {Str(AEY), Str(GenY)}, o \in {Str(AEX), Str(AEY)}}
MultipleRowsArgs ==
  {OV(t, c, FALSE, w, PyNone, PyNone) :
     t \in {Str(AEX), Str(Absent)}, c \in {PyNone, PyInt(0), PyInt(1), PyInt(2)},
     w \in {Str(AEY), Str(GenY)}}

\* one value-level-metadata record: its three row predicates
Vlm1 == [filter |-> "y_lower", type_check |-> "x_given", length_check |-> "any"]
\* context value -> permitted keys -> related values
RelationshipData ==
  (Str(<<"a">>) :> (Str(<<"a">>) :> <<Str(<<"A">>)>>))

(* ------------------------------ the calls ------------------------------ *)
InitDF ==
  /\ \E n \in 1..MaxRows : \E x \in [1..n -> XCells], y \in [1..n -> YCells] :
       value = (AEX :> x @@ AEY :> y)
  /\ column_prefix_map = << <<(<<"-", "-">>), (<<"A", "E">>)>> >>
  /\ relationship_data = RelationshipData
  /\ value_level_metadata \in {<<>>, <<Vlm1>>}
  /\ pc = "idle"
  /\ op = ""
  /\ arg = NoArg
  /\ argOut = NoArg
  /\ result = NoResult
  /\ looked = {}
  /\ calls = 0
  /\ uuids = 0
  /\ self_type = ""
  /\ given = PyNone
  /\ self_value = PyNone
  /\ other = PyNone

\* One operator call on the shared bundle, start to return.
Call(name, other_value) ==
  LET o == Apply(name, value, other_value)
  IN /\ pc = "idle"
     /\ pc' = "returned"
     /\ op' = name
     /\ arg' = other_value
     /\ argOut' = o.arg
     /\ result' = o.ret
     /\ value' = o.df
     /\ looked' = o.looked
     /\ UNCHANGED <<column_prefix_map, relationship_data, value_level_metadata,
                    calls, uuids, scalar_vars>>

\* The caller takes the result; the bundle stays for the next call.
Return ==
  /\ pc = "returned"
  /\ pc' = "idle"
  /\ op' = ""
  /\ arg' = NoArg
  /\ argOut' = NoArg
  /\ result' = NoResult
  /\ looked' = {}
  /\ other' = PyNone
  /\ UNCHANGED <<value, column_prefix_map, relationship_data, value_level_metadata,
                 calls, uuids, self_type, given, self_value>>

Call_exists == \E a \in TargetArgs : Call("exists", a)
Call_not_exists == \E a \in TargetArgs : Call("not_exists", a)
Call_equal_to == \E a \in CompareArgs : Call("equal_to", a)
Call_not_equal_to == \E a \in CompareArgs : Call("not_equal_to", a)
Call_equal_to_case_insensitive ==
  \E a \in CompareArgs : Call("equal_to_case_insensitive", a)
Call_not_equal_to_case_insensitive ==
  \E a \in CompareArgs : Call("not_equal_to_case_insensitive", a)
Call_matches_regex == \E a \in RegexArgs : Call("matches_regex", a)
Call_not_matches_regex == \E a \in RegexArgs : Call("not_matches_regex", a)
Call_contains == \E a \in ContainsArgs : Call("contains", a)
Call_contains_case_insensitive ==
  \E a \in ContainsArgs : Call("contains_case_insensitive", a)
Call_is_contained_by == \E a \in ContainedArgs : Call("is_contained_by", a)
Call_is_ordered_by == \E a \in TargetArgs : Call("is_ordered_by", a)
Call_empty == \E a \in TargetArgs : Call("empty", a)
Call_non_empty == \E a \in TargetArgs : Call("non_empty", a)
Call_contains_all == \E a \in SetArgs : Call("contains_all", a)
Call_not_contains_all == \E a \in SetArgs : Call("not_contains_all", a)
Call_is_unique_set == \E a \in SetArgs : Call("is_unique_set", a)
Call_is_not_unique_set == \E a \in SetArgs : Call("is_not_unique_set", a)
Call_is_unique_relationship == \E a \in SetArgs : Call("is_unique_relationship", a)
Call_is_not_unique_relationship == \E a \in SetArgs : Call("is_not_unique_relationship", a)
Call_is_ordered_set == \E a \in SetArgs : Call("is_ordered_set", a)
Call_is_not_ordered_set == \E a \in SetArgs : Call("is_not_ordered_set", a)
Call_is_valid_reference == \E a \in ReferenceArgs : Call("is_valid_reference", a)
Call_is_not_valid_reference == \E a \in ReferenceArgs : Call("is_not_valid_reference", a)
Call_non_conformant_value_data_type == Call("non_conformant_value_data_type", NoArg)
Call_non_conformant_value_length == Call("non_conformant_value_length", NoArg)
Call_conformant_value_data_type == Call("conformant_value_data_type", NoArg)
Call_conformant_value_length == Call("conformant_value_length", NoArg)
Call_has_next_corresponding_record ==
  \E a \in NextRecordArgs : Call("has_next_corresponding_record", a)
Call_does_not_have_next_corresponding_record ==
  \E a \in NextRecordArgs : Call("does_not_have_next_corresponding_record", a)
Call_present_on_multiple_rows_within ==
  \E a \in MultipleRowsArgs : Call("present_on_multiple_rows_within", a)
Call_not_present_on_multiple_rows_within ==
  \E a \in MultipleRowsArgs : Call("not_present_on_multiple_rows_within", a)

Next ==
  \/ Call_exists
  \/ Call_not_exists
  \/ Call_equal_to
  \/ Call_not_equal_to
  \/ Call_equal_to_case_insensitive
  \/ Call_not_equal_to_case_insensitive
  \/ Call_matches_regex
  \/ Call_not_matches_regex
  \/ Call_contains
  \/ Call_contains_case_insensitive
  \/ Call_is_contained_by
  \/ Call_is_ordered_by
  \/ Call_empty
  \/ Call_non_empty
  \/ Call_contains_all
  \/ Call_not_contains_all
  \/ Call_is_unique_set
  \/ Call_is_not_unique_set
  \/ Call_is_unique_relationship
  \/ Call_is_not_unique_relationship
  \/ Call_is_ordered_set
  \/ Call_is_not_ordered_set
  \/ Call_is_valid_reference
  \/ Call_is_not_valid_reference
  \/ Call_non_conformant_value_data_type
  \/ Call_non_conformant_value_length
  \/ Call_conformant_value_data_type
  \/ Call_conformant_value_length
  \/ Call_has_next_corresponding_record
  \/ Call_does_not_have_next_corresponding_record
  \/ Call_present_on_multiple_rows_within
  \/ Call_not_present_on_multiple_rows_within
  \/ Return

Spec == InitDF /\ [][Next]_vars

(* -------------------- the column-writing operators --------------------- *)
WithinArgs ==
  {TC(t, c, FALSE) : t \in {Str(AEX), Str(GenX), Str(Absent)}, c \in {Str(AEY), Str(GenY)}}

\* One call of a column-writing operator; it draws a uuid only when it gets
\* as far as the assignment.
CallWriter(name, other_value) ==
  LET o == IF name = "empty_within_except_last_row"
           THEN empty_within_except_last_row(value, other_value, uuids + 1)
           ELSE non_empty_within_except_last_row(value, other_value, uuids + 1)
  IN /\ pc = "idle"
     /\ calls < MaxCalls
     /\ pc' = "returned"
     /\ op' = name
     /\ arg' = other_value
     /\ argOut' = o.arg
     /\ result' = o.ret
     /\ value' = o.df
     /\ looked' = o.looked
     /\ calls' = calls + 1
     /\ uuids' = IF o.ret.kind = "raise" THEN uuids ELSE uuids + 1
     /\ UNCHANGED <<column_prefix_map, relationship_data, value_level_metadata,
                    scalar_vars>>

Call_empty_within_except_last_row ==
  \E a \in WithinArgs : CallWriter("empty_within_except_last_row", a)
Call_non_empty_within_except_last_row ==
  \E a \in WithinArgs : CallWriter("non_empty_within_except_last_row", a)

NextWriter ==
  \/ Call_empty_within_except_last_row
  \/ Call_non_empty_within_except_last_row
  \/ Return

SpecWriter == InitDF /\ [][NextWriter]_vars

\* Tables with a column AEX and its additional columns AEX1, AEX2.
AEX1 == <<"A", "E", "X", "1">>
AEX2 == <<"A", "E", "X", "2">>
InitColumns ==
  /\ \E n \in 1..MaxRows : \E x1 \in [1..n -> XCells], x2 \in [1..n -> XCells] :
       value = (AEX :> [i \in 1..n |-> EmptyStr] @@ AEX1 :> x1 @@ AEX2 :> x2)
  /\ column_prefix_map = << <<(<<"-", "-">>), (<<"A", "E">>)>> >>
  /\ relationship_data = RelationshipData
  /\ value_level_metadata = <<>>
  /\ pc = "idle"
  /\ op = ""
  /\ arg = NoArg
  /\ argOut = NoArg
  /\ result = NoResult
  /\ looked = {}
  /\ calls = 0
  /\ uuids = 0
  /\ self_type = ""
  /\ given = PyNone
  /\ self_value = PyNone
  /\ other = PyNone

AdditionalArgs == {TC(t, PyNone, FALSE) : t \in {Str(AEX), Str(GenX)}}
Call_additional_columns_empty ==
  \E a \in AdditionalArgs : Call("additional_columns_empty", a)
Call_additional_columns_not_empty ==
  \E a \in AdditionalArgs : Call("additional_columns_not_empty", a)

NextColumns ==
  \/ Call_additional_columns_empty
  \/ Call_additional_columns_not_empty
  \/ Return

SpecColumns == InitColumns /\ [][NextColumns]_vars

(* ------------------------- the scalar types ---------------------------- *)
\* NumericType.EPSILON = Decimal('0.000001'), in units of 10^-7
EPSILON == 10
\* the number 1 in units of 10^-7
One == EPSILON * 1000 * 1000

\* What _assert_valid_value_and_cast hands back: the val, or a raise.
Cast(v) == [ok |-> TRUE, v |-> v, exc |-> ""]
CastError(e) == [ok |-> FALSE, v |-> PyNone, exc |-> e]

\* utils.float_to_decimal: the Decimal of exactly the float's number
float_to_decimal(val) == Decimal(val.n, val.f)
\* Decimal(value) of an int or a bool: exact
DecimalOf(val) == Decimal(val.n * One, 0)
\* isinstance(value, integer_types): bool is a subclass of int
IsInteger(val) == val.t \in {"int", "bool"}
\* hasattr(value, '__iter__')
HasIter(val) == val.t \in {"str", "list", "DataFrame"}

StringType_assert_valid_value_and_cast(val) ==
  IF val.t = "DataFrame" THEN CastError("ValueError")   \* bool(DataFrame) raises
  ELSE LET v == IF Truthy(val) THEN val ELSE EmptyStr   \* value or ""
       IN IF IsStr(v) THEN Cast(v) ELSE CastError("AssertionError")

\* NumericType._assert_valid_value_and_cast without its Decimal branch
NumericType_cast_rejecting_Decimal(val) ==
  IF val.t = "float" THEN Cast(float_to_decimal(val))
  ELSE IF IsInteger(val) THEN Cast(DecimalOf(val))
  ELSE CastError("AssertionError")

NumericType_assert_valid_value_and_cast(val) ==
  IF val.t = "float" THEN Cast(float_to_decimal(val))
  ELSE IF IsInteger(val) THEN Cast(DecimalOf(val))
  ELSE IF val.t = "Decimal" THEN Cast(val)
  ELSE CastError("AssertionError")

BooleanType_assert_valid_value_and_cast(val) ==
  IF val.t # "bool" THEN CastError("AssertionError") ELSE Cast(val)

SelectType_assert_valid_value_and_cast(val) ==
  IF ~HasIter(val) THEN CastError("AssertionError") ELSE Cast(val)

SelectMultipleType_assert_valid_value_and_cast(val) ==
  IF ~HasIter(val) THEN CastError("AssertionError") ELSE Cast(val)

DataframeType_assert_valid_value_and_cast(val) ==
  IF ~HasIter(val) THEN CastError("AssertionError") ELSE Cast(val)

GenericType_assert_valid_value_and_cast(val) ==
  IF IsStr(val) THEN Cast(val)
  ELSE IF val.t = "float" THEN Cast(float_to_decimal(val))
  ELSE IF IsInteger(val) THEN Cast(DecimalOf(val))
  ELSE Cast(val)

\* self._assert_valid_value_and_cast of the class named
assert_valid_value_and_cast(type, val) ==
  CASE type = "string" -> StringType_assert_valid_value_and_cast(val)
    [] type = "numeric" -> NumericType_assert_valid_value_and_cast(val)
    [] type = "boolean" -> BooleanType_assert_valid_value_and_cast(val)
    [] type = "select" -> SelectType_assert_valid_value_and_cast(val)
    [] type = "select_multiple" -> SelectMultipleType_assert_valid_value_and_cast(val)
    [] type = "dataframe" -> DataframeType_assert_valid_value_and_cast(val)
    [] type = "generic" -> GenericType_assert_valid_value_and_cast(val)

\* Decimal arithmetic.  a - b is the exact difference rounded to the 28
\* significant digits of the context: once the difference has a digit at
\* 10^-7 or above, its digits at 10^-36 lie beyond the 28th and are rounded
\* away (they are less than half a unit of the 28th digit).
DecimalSub(a, b) ==
  IF a.n - b.n # 0 THEN Decimal(a.n - b.n, 0) ELSE Decimal(0, a.f - b.f)
\* a > b; a comparison is exact
DecimalGreater(a, b) == a.n > b.n \/ (a.n = b.n /\ a.f > b.f)
\* abs(a)
DecimalAbs(a) == IF DecimalGreater(Decimal(0, 0), a) THEN Decimal(-a.n, -a.f) ELSE a

NumericType_equal_to(self, other_numeric) ==
  ~DecimalGreater(DecimalAbs(DecimalSub(self, other_numeric)), Decimal(EPSILON, 0))
NumericType_not_equal_to(self, other_numeric) ==
  DecimalGreater(DecimalAbs(DecimalSub(self, other_numeric)), Decimal(EPSILON, 0))
NumericType_greater_than(self, other_numeric) ==
  DecimalGreater(DecimalSub(self, other_numeric), Decimal(EPSILON, 0))
NumericType_greater_than_or_equal_to(self, other_numeric) ==
  NumericType_greater_than(self, other_numeric) \/ NumericType_equal_to(self, other_numeric)
NumericType_less_than(self, other_numeric) ==
  DecimalGreater(DecimalSub(other_numeric, self), Decimal(EPSILON, 0))
NumericType_less_than_or_equal_to(self, other_numeric) ==
  NumericType_less_than(self, other_numeric) \/ NumericType_equal_to(self, other_numeric)

\* type_operator: the argument goes through the class's cast, then the body runs
type_operator(name, self, argument) ==
  LET c == NumericType_assert_valid_value_and_cast(argument)
  IN IF ~c.ok THEN Raise(c.exc)
     ELSE Scalar(CASE name = "equal_to" -> NumericType_equal_to(self, c.v)
                   [] name = "not_equal_to" -> NumericType_not_equal_to(self, c.v)
                   [] name = "greater_than" -> NumericType_greater_than(self, c.v)
                   [] name = "greater_than_or_equal_to" ->
                        NumericType_greater_than_or_equal_to(self, c.v)
                   [] name = "less_than" -> NumericType_less_than(self, c.v)
                   [] name = "less_than_or_equal_to" ->
                        NumericType_less_than_or_equal_to(self, c.v))

\* StringType.equal_to: self.value == other_string
StringType_equal_to(self, other_string) == self = other_string
\* the same decorator on StringType: the argument goes through StringType's cast
StringType_operator(name, self, argument) ==
  LET c == StringType_assert_valid_value_and_cast(argument)
  IN IF ~c.ok THEN Raise(c.exc)
     ELSE Scalar(StringType_equal_to(self, c.v))

\* `for x in v`: the items of a list, the characters of a str; the DataFrame
\* of RawValues has no column, so iterating it yields nothing
Iterate(v) ==
  IF IsList(v) THEN v.l
  ELSE IF IsStr(v) THEN [i \in DOMAIN v.s |-> Str(<<v.s[i]>>)]
  ELSE <<>>

SelectType_case_insensitive_equal_to(value_from_list, other_value) ==
  IF IsStr(value_from_list) /\ IsStr(other_value)
  THEN LowerSeq(value_from_list.s) = LowerSeq(other_value.s)
  ELSE PyEq(value_from_list, other_value)

\* SelectType(self.value).contains(other_value); its argument is not cast
SelectType_contains(self, other_value) ==
  \E i \in DOMAIN Iterate(self) :
    SelectType_case_insensitive_equal_to(Iterate(self)[i], other_value)

\* the loop without its `if found_one: return False`
SelectMultipleType_shares_one_ignoring_repeats(self, other_value) ==
  \E i \in DOMAIN Iterate(other_value) : SelectType_contains(self, Iterate(other_value)[i])

\* found[i]: the loop's state after i items: "no", "one", or "False" once
\* the loop has returned False
SelectMultipleType_shares_exactly_one_element_with(self, other_value) ==
  LET items == Iterate(other_value)
      found[i \in 0..Len(items)] ==
        IF i = 0 THEN "no"
        ELSE IF found[i - 1] = "False" THEN "False"
        ELSE IF SelectType_contains(self, items[i])
             THEN (IF found[i - 1] = "one" THEN "False" ELSE "one")
             ELSE found[i - 1]
  IN found[Len(items)] = "one"

\* the same decorator on SelectMultipleType
SelectMultipleType_operator(name, self, argument) ==
  LET c == SelectMultipleType_assert_valid_value_and_cast(argument)
  IN IF ~c.ok THEN Raise(c.exc)
     ELSE Scalar(SelectMultipleType_shares_exactly_one_element_with(self, c.v))

\* GenericType.num_equal_to: the argument goes through GenericType's cast;
\* Decimal - x raises TypeError unless x is a Decimal
GenericType_num_equal_to(self, other_numeric) ==
  LET c == GenericType_assert_valid_value_and_cast(other_numeric)
  IN IF c.v.t # "Decimal" THEN Raise("TypeError")
     ELSE Scalar(NumericType_equal_to(self, c.v))

\* GenericType.str_equal_to: self.value == other_string
GenericType_str_equal_to(self, other_string) ==
  LET c == GenericType_assert_valid_value_and_cast(other_string)
  IN Scalar(PyEq(self, c.v))

\* GenericType.equal_to: isinstance(self.value, Decimal) picks the comparison
GenericType_equal_to(self, other_value) ==
  IF self.t = "Decimal" THEN GenericType_num_equal_to(self, other_value)
  ELSE GenericType_str_equal_to(self, other_value)

\* what GenericType.is_contained_by leaves in self.value
GenericType_wrapped(self) == IF IsList(self) THEN self ELSE List(<<self>>)

\* SelectMultipleType.is_contained_by on the wrapped value: other_value is
\* cast by GenericType, SelectMultipleType(other_value) asserts it iterable,
\* and contains_all looks every item of self.value up in it
GenericType_is_contained_by(self, other_value) ==
  LET c == GenericType_assert_valid_value_and_cast(other_value)
      mine == Iterate(GenericType_wrapped(self))
  IN IF ~SelectMultipleType_assert_valid_value_and_cast(c.v).ok
     THEN Raise("AssertionError")
     ELSE Scalar(\A i \in DOMAIN mine : SelectType_contains(c.v, mine[i]))

\* the lists of up to MaxLen strings that differ by case or by letter
SelectItems == {Str(<<"a">>), Str(<<"A">>), Str(<<"b">>)}
SelectLists == {List(l) : l \in UNION {[1..k -> SelectItems] : k \in 0..MaxLen}}

NumericValues ==
  {Decimal(n, f) : n \in 0..MaxUnits, f \in (-MaxTail)..MaxTail}
    \cup {PyFloat(0, 0), PyFloat(EPSILON, 0), PyInt(0), PyInt(1), PyBool(TRUE)}
RawValues ==
  NumericValues \cup {EmptyStr, Str(<<"a">>), PyNone, PyBool(FALSE), NpBool(TRUE),
                      List(<<>>), List(<<Str(<<"a">>)>>), DataFrame}
    \cup SelectLists

InitScalar ==
  /\ value = <<>>
  /\ column_prefix_map = <<>>
  /\ relationship_data = <<>>
  /\ value_level_metadata = <<>>
  /\ pc = "idle"
  /\ op = ""
  /\ arg = NoArg
  /\ argOut = NoArg
  /\ result = NoResult
  /\ looked = {}
  /\ calls = 0
  /\ uuids = 0
  /\ self_type = ""
  /\ given = PyNone
  /\ self_value = PyNone
  /\ other = PyNone

\* BaseType.__init__: self.value = self._assert_valid_value_and_cast(value)
Construct(type, data) ==
  LET c == assert_valid_value_and_cast(type, data)
  IN /\ pc = "idle"
     /\ self_type = ""
     /\ IF c.ok
        THEN /\ self_type' = type
             /\ given' = data
             /\ self_value' = c.v
             /\ UNCHANGED <<pc, op, result, other>>
        ELSE /\ pc' = "returned"
             /\ op' = "__init__"
             /\ result' = Raise(c.exc)
             /\ other' = data
             /\ UNCHANGED <<self_type, given, self_value>>
     /\ UNCHANGED frame_vars

\* One call of a NumericType operator on the instance.
CallNumeric(name, argument) ==
  /\ pc = "idle"
  /\ self_type = "numeric"
  /\ pc' = "returned"
  /\ op' = name
  /\ other' = argument
  /\ result' = type_operator(name, self_value, argument)
  /\ UNCHANGED <<frame_vars, self_type, given, self_value>>

\* One call of a StringType operator on the instance.
CallString(name, argument) ==
  /\ pc = "idle"
  /\ self_type = "string"
  /\ pc' = "returned"
  /\ op' = name
  /\ other' = argument
  /\ result' = StringType_operator(name, self_value, argument)
  /\ UNCHANGED <<frame_vars, self_type, given, self_value>>

\* One call of a SelectMultipleType operator on the instance.
CallSelectMultiple(name, argument) ==
  /\ pc = "idle"
  /\ self_type = "select_multiple"
  /\ pc' = "returned"
  /\ op' = name
  /\ other' = argument
  /\ result' = SelectMultipleType_operator(name, self_value, argument)
  /\ UNCHANGED <<frame_vars, self_type, given, self_value>>

\* One call of GenericType.equal_to or GenericType.is_contained_by on an
\* instance that holds a str, a Decimal, None or a list.
CallGeneric(name, argument) ==
  /\ pc = "idle"
  /\ self_type = "generic"
  /\ self_value.t \in {"str", "Decimal", "none", "list"}
  /\ pc' = "returned"
  /\ op' = name
  /\ other' = argument
  /\ IF name = "is_contained_by"
     THEN /\ self_value' = GenericType_wrapped(self_value)
          /\ result' = GenericType_is_contained_by(self_value, argument)
     ELSE /\ self_value' = self_value
          /\ result' = GenericType_equal_to(self_value, argument)
  /\ UNCHANGED <<frame_vars, self_type, given>>

StringType == \E v \in RawValues : Construct("string", v)
NumericType == \E v \in RawValues : Construct("numeric", v)
BooleanType == \E v \in RawValues : Construct("boolean", v)
SelectType == \E v \in RawValues : Construct("select", v)
SelectMultipleType == \E v \in RawValues : Construct("select_multiple", v)
DataframeType == \E v \in RawValues : Construct("dataframe", v)
GenericType == \E v \in RawValues : Construct("generic", v)

NumericArgs == NumericValues \cup {Str(<<"a">>), PyNone}
Call_NumericType_equal_to == \E b \in NumericArgs : CallNumeric("equal_to", b)
Call_NumericType_not_equal_to == \E b \in NumericArgs : CallNumeric("not_equal_to", b)
Call_NumericType_greater_than == \E b \in NumericArgs : CallNumeric("greater_than", b)
Call_NumericType_greater_than_or_equal_to ==
  \E b \in NumericArgs : CallNumeric("greater_than_or_equal_to", b)
Call_NumericType_less_than == \E b \in NumericArgs : CallNumeric("less_than", b)
Call_NumericType_less_than_or_equal_to ==
  \E b \in NumericArgs : CallNumeric("less_than_or_equal_to", b)

StringArgs ==
  {Str(<<"a">>), EmptyStr, PyNone, PyInt(0), PyInt(1), PyBool(FALSE), List(<<>>)}
Call_StringType_equal_to == \E b \in StringArgs : CallString("equal_to", b)

SelectArgs == SelectLists \cup {Str(<<"a", "B">>), PyInt(0), PyNone}
Call_SelectMultipleType_shares_exactly_one_element_with ==
  \E b \in SelectArgs : CallSelectMultiple("shares_exactly_one_element_with", b)

GenericArgs ==
  {PyInt(0), PyInt(1), Decimal(One, 0), Str(<<"a">>), PyNone,
   List(<<Str(<<"A">>)>>), List(<<Decimal(One, 0)>>)}
Call_GenericType_equal_to == \E b \in GenericArgs : CallGeneric("equal_to", b)
Call_GenericType_is_contained_by ==
  \E b \in GenericArgs : CallGeneric("is_contained_by", b)

NextScalar ==
  \/ StringType
  \/ NumericType
  \/ BooleanType
  \/ SelectType
  \/ SelectMultipleType
  \/ DataframeType
  \/ GenericType
  \/ Call_StringType_equal_to
  \/ Call_SelectMultipleType_shares_exactly_one_element_with
  \/ Call_GenericType_equal_to
  \/ Call_GenericType_is_contained_by
  \/ Call_NumericType_equal_to
  \/ Call_NumericType_not_equal_to
  \/ Call_NumericType_greater_than
  \/ Call_NumericType_greater_than_or_equal_to
  \/ Call_NumericType_less_than
  \/ Call_NumericType_less_than_or_equal_to
  \/ Return

SpecScalar == InitScalar /\ [][NextScalar]_vars

(* ------------------------------- claims -------------------------------- *)
\* the operators that return one entry per row
PerRowOperators ==
  {"equal_to", "not_equal_to", "equal_to_case_insensitive",
   "not_equal_to_case_insensitive", "matches_regex", "not_matches_regex",
   "is_ordered_by", "contains", "contains_case_insensitive",
   "empty", "non_empty", "is_unique_set",
   "is_not_unique_set", "is_unique_relationship", "is_not_unique_relationship",
   "is_valid_reference", "is_not_valid_reference",
   "non_conformant_value_data_type", "non_conformant_value_length",
   "conformant_value_data_type", "conformant_value_length",
   "has_next_corresponding_record", "does_not_have_next_corresponding_record",
   "present_on_multiple_rows_within", "not_present_on_multiple_rows_within"}

\* C1: a per-row operator that returns a column returns one entry per row of
\* the table, whatever the groups and min_count are.
C1_OutputLengthIsRowCount ==
  (pc = "returned" /\ op \in PerRowOperators /\ result.kind = "series")
    => Len(result.vals) = NRows(value)

\* the catalog's X / not_X pairs among the operators modelled
Negated ==
  [x \in {"exists", "equal_to", "equal_to_case_insensitive", "matches_regex", "empty",
          "contains_all",
          "is_unique_set", "is_unique_relationship", "is_ordered_set",
          "is_valid_reference", "has_next_corresponding_record",
          "present_on_multiple_rows_within"} |->
     CASE x = "exists" -> "not_exists"
       [] x = "equal_to" -> "not_equal_to"
       [] x = "equal_to_case_insensitive" -> "not_equal_to_case_insensitive"
       [] x = "matches_regex" -> "not_matches_regex"
       [] x = "empty" -> "non_empty"
       [] x = "contains_all" -> "not_contains_all"
       [] x = "is_unique_set" -> "is_not_unique_set"
       [] x = "is_unique_relationship" -> "is_not_unique_relationship"
       [] x = "is_ordered_set" -> "is_not_ordered_set"
       [] x = "is_valid_reference" -> "is_not_valid_reference"
       [] x = "has_next_corresponding_record" ->
            "does_not_have_next_corresponding_record"
       [] x = "present_on_multiple_rows_within" ->
            "not_present_on_multiple_rows_within"]
\* boolean negation entry by entry; a missing entry stays missing, and a
\* call that raises has no result to negate
Negation(r) ==
  CASE r.kind = "series" ->
         [r EXCEPT !.vals = [i \in DOMAIN r.vals |->
            IF IsNull(r.vals[i]) THEN r.vals[i] ELSE NpBool(~Truthy(r.vals[i]))]]
    [] r.kind = "scalar" -> Scalar(r.vals[1] = PyBool(FALSE))
    [] OTHER -> r
IsBoolean(r) ==
  \A i \in DOMAIN r.vals : r.vals[i] \in {NpBool(TRUE), NpBool(FALSE), PyBool(TRUE),
                                          PyBool(FALSE), NA, NaN}

\* C2: whenever X was called, not_X on the same table and argument returns
\* the entry-wise boolean negation of what X returned.
C2_NotXIsNegationOfX ==
  (pc = "returned" /\ op \in DOMAIN Negated)
    => /\ IsBoolean(result)
       /\ Apply(Negated[op], value, arg).ret = Negation(result)

\* the operators that read the target column
TargetOperators ==
  (PerRowOperators \ {"non_conformant_value_data_type", "non_conformant_value_length",
                      "conformant_value_data_type", "conformant_value_length"})
  \cup {"contains_all", "not_contains_all", "is_ordered_set", "is_not_ordered_set"}

\* C3: a target or non-literal comparator that names no column, a prefix the
\* map does not know and a cell that is no relationship key never make a
\* call end in an error.
C3_MissingColumnIsNoError ==
  (pc = "returned" /\ op \in TargetOperators
     /\ ~HasCol(value, replace_prefix(arg.target)))
    => result.kind # "raise"
\* the part of it that holds: an absent relationship key gives false
C3_AbsentKeyIsFalse ==
  (pc = "returned" /\ op = "is_valid_reference" /\ result.kind = "series")
    => \A i \in DOMAIN result.vals :
         LET t == replace_prefix(arg.target)
         IN (~Truthy(arg.context) /\ value[t.s][i] \notin DOMAIN relationship_data)
              => result.vals[i] = NpBool(FALSE)

\* the names an argument stands for once rewritten
Rewritten(v) ==
  IF IsList(v) THEN {replace_prefix(v.l[i]) : i \in DOMAIN v.l} ELSE {replace_prefix(v)}

\* C4: every name an operator looks up in the table is the replace_prefix
\* rewrite of the argument it came from.
C4_NamesRewrittenBeforeLookup ==
  pc = "returned" => \A l \in looked : l[2] \in Rewritten(arg[l[1]])

\* C5: a call of a pure operator leaves the table, the metadata and the
\* caller's argument record as they were.
C5_OperatorsArePure ==
  [][/\ value' = value
     /\ column_prefix_map' = column_prefix_map
     /\ relationship_data' = relationship_data
     /\ value_level_metadata' = value_level_metadata
     /\ (pc' = "returned" => argOut' = arg')]_vars

\* C9: equal_to and equal_to_case_insensitive return false on every row
\* whose target cell is "" or missing, whatever the comparison data is.
C9_EmptyTargetIsNeverEqual ==
  (pc = "returned" /\ op \in {"equal_to", "equal_to_case_insensitive"}
     /\ HasCol(value, replace_prefix(arg.target)))
    => /\ result.kind = "series"
       /\ \A i \in DOMAIN result.vals :
            LET c == value[replace_prefix(arg.target).s][i]
            IN (c = EmptyStr \/ IsNull(c)) => result.vals[i] = NpBool(FALSE)

\* C10: is_unique_relationship gives the same column with target and
\* comparator exchanged.
C10_UniqueRelationshipSymmetric ==
  (pc = "returned" /\ op = "is_unique_relationship" /\ IsStr(arg.comparator))
    => Apply(op, value, TC(arg.comparator, arg.target, FALSE)).ret = result
C10_Witness ==
  /\ pc = "returned"
  /\ op = "is_unique_relationship"
  /\ replace_prefix(arg.target) # replace_prefix(arg.comparator)
  /\ result.kind = "series"
  /\ NpBool(FALSE) \in Range(result.vals)

WriterOperators == {"empty_within_except_last_row", "non_empty_within_except_last_row"}

\* C6: each call of a column-writing operator adds exactly one column, under
\* a name the table did not have, and leaves the other columns as they were.
C6_EachCallAddsOneColumn ==
  [][(pc' = "returned" /\ op' \in WriterOperators)
       => /\ \E c \in DOMAIN value' :
               c \notin DOMAIN value /\ DOMAIN value' = DOMAIN value \cup {c}
          /\ \A c \in DOMAIN value : value'[c] = value[c]]_vars

\* C7: for every type and every raw value its coercion accepts, coercing
\* the coerced value again succeeds and returns the same value.
C7_CoercionIsIdempotent ==
  self_type # ""
    => LET c == assert_valid_value_and_cast(self_type, given)
       IN /\ c.ok
          /\ assert_valid_value_and_cast(self_type, c.v) = c
\* a NumericType built from an int or float: the coercion changed the value
C7_Witness ==
  /\ self_type = "numeric"
  /\ given.t \in {"int", "float"}
  /\ self_value.t = "Decimal"
  /\ self_value # given

\* the exact |a - b| <= EPSILON, on the numbers themselves
WithinEpsilon(a, b) ==
  LET n == a.n - b.n
      f == a.f - b.f
      neg == n < 0 \/ (n = 0 /\ f < 0)
      an == IF neg THEN -n ELSE n
      af == IF neg THEN -f ELSE f
  IN an < EPSILON \/ (an = EPSILON /\ af <= 0)

\* C8: |a - b| <= EPSILON makes equal_to true and greater_than, less_than
\* false; |a - b| > EPSILON makes equal_to false and exactly one of
\* greater_than, less_than true.
C8_EpsilonTrichotomy ==
  (pc = "returned" /\ self_type = "numeric" /\ result.kind = "scalar")
    => LET a == self_value
           b == NumericType_assert_valid_value_and_cast(other).v
           eq == type_operator("equal_to", a, other).vals[1] = PyBool(TRUE)
           gt == type_operator("greater_than", a, other).vals[1] = PyBool(TRUE)
           lt == type_operator("less_than", a, other).vals[1] = PyBool(TRUE)
       IN IF WithinEpsilon(a, b) THEN eq /\ ~gt /\ ~lt
          ELSE ~eq /\ (gt # lt)

\* the column is non-decreasing in row order (missing cells sort last)
NonDecreasing(col) == \A i \in 1..(Len(col) - 1) : ~CellLess(col[i + 1], col[i])

\* C11: entry i of is_ordered_by is true iff cell i equals the i-th cell of
\* the column sorted ascending, and all entries are true iff the column is
\* non-decreasing in row order.
C11_OrderedByIsSortedness ==
  (pc = "returned" /\ op = "is_ordered_by" /\ result.kind = "series")
    => LET col == value[replace_prefix(arg.target).s]
           order == SortIdx(DOMAIN col, col)
       IN /\ \A i \in DOMAIN col : (result.vals[i] = NpBool(TRUE)) <=> (col[i] = col[order[i]])
          /\ (\A i \in DOMAIN col : result.vals[i] = NpBool(TRUE)) <=> NonDecreasing(col)

\* C12: has_next_corresponding_record, after sorting by the ordering column
\* and grouping by the within column, yields for each group of k rows k
\* entries: entry i (i < k) is true iff the target cell of the group's i-th
\* row equals the comparator cell of its (i+1)-th row, and the last entry is
\* the null placeholder; a one-row group yields the placeholder alone.
C12_NextRecordPerGroup ==
  (pc = "returned" /\ op = "has_next_corresponding_record"
     /\ \A k \in {"target", "comparator", "within", "ordering"} :
          HasCol(value, replace_prefix(arg[k])))
    => LET t == value[replace_prefix(arg.target).s]
           c == value[replace_prefix(arg.comparator).s]
           sorted == SortIdx(1..NRows(value), value[replace_prefix(arg.ordering).s])
           groups == Groups(value[replace_prefix(arg.within).s], sorted)
           entries(rows) == [i \in 1..Len(rows) |->
                               IF i = Len(rows) THEN NA
                               ELSE NpBool(t[rows[i]] = c[rows[i + 1]])]
       IN /\ result.kind = "series"
          /\ result.vals = Flatten([g \in DOMAIN groups |-> entries(groups[g])])
\* a group of two rows whose first row matches the second, and its placeholder
C12_Witness ==
  /\ pc = "returned" /\ op = "has_next_corresponding_record"
  /\ result.kind = "series"
  /\ result.vals = <<NpBool(TRUE), NA>>
  /\ value[replace_prefix(arg.target).s] # value[replace_prefix(arg.comparator).s]

\* C13: string coercion, at StringType construction and at the coercion of
\* an operator's argument, fails (TypeMismatch, the code's AssertionError)
\* for every input that is neither a string nor None, such as 0, False and
\* the empty list; None is the only non-string accepted.
C13_StringCoercionRejectsNonStrings ==
  /\ self_type = "string" => given.t \in {"str", "none"}
  /\ (pc = "returned" /\ self_type = "string" /\ op = "equal_to"
        /\ other.t \notin {"str", "none"})
       => result = Raise("AssertionError")

\* C14: empty_within_except_last_row returns true iff, grouping by the
\* comparator column, some row that is not the last of its group has an empty
\* target cell; non_empty_within_except_last_row returns true iff there is no
\* such row.
C14_WithinExceptLastRowVerdict ==
  (pc = "returned" /\ op \in WriterOperators
     /\ IsStr(arg.target) /\ IsStr(arg.comparator)
     /\ HasCol(value, replace_prefix(arg.target))
     /\ HasCol(value, replace_prefix(arg.comparator)))
    => LET t == value[replace_prefix(arg.target).s]
           groups == Groups(value[replace_prefix(arg.comparator).s], RowOrder(value))
           some == \E g \in DOMAIN groups : \E i \in 1..(Len(groups[g]) - 1) :
                     t[groups[g][i]] \in {EmptyStr, PyNone}
       IN result = Scalar(IF op = "empty_within_except_last_row" THEN some ELSE ~some)

\* C15: contains and contains_case_insensitive, on a target column whose
\* cells are not iterables and with a comparator that names a column
\* (value_is_literal false), give for each row whether that row's comparator
\* cell occurs anywhere in the target column (membership), not whether it
\* equals the target cell of the same row.
C15_ContainsIsMembership ==
  (pc = "returned" /\ op \in {"contains", "contains_case_insensitive"}
     /\ ~arg.value_is_literal
     /\ HasCol(value, replace_prefix(arg.target))
     /\ HasCol(value, replace_prefix(arg.comparator)))
    => LET t == value[replace_prefix(arg.target).s]
           c == value[replace_prefix(arg.comparator).s]
           fold(x) == IF op = "contains" THEN x ELSE LowerCell(x)
       IN /\ result.kind = "series"
          /\ \A r \in DOMAIN c :
               (result.vals[r] = NpBool(TRUE))
                 <=> \E j \in DOMAIN t : CellEq(fold(t[j]), fold(c[r]))

\* C16: additional_columns_empty(target) is true on a row iff, among the
\* columns named target followed by digits, there is an index i whose cell is
\* empty while cell i+1 is non-empty; a row where an empty cell is followed
\* only by empty cells (empty strings included) yields false.
C16_EmptyBeforeNonEmpty ==
  (pc = "returned" /\ op = "additional_columns_empty")
    => LET cols == AdditionalColumns(value, replace_prefix(arg.target))
           isEmpty(c) == c \in {EmptyStr, PyNone}
       IN /\ result.kind = "series"
          /\ \A r \in 1..NRows(value) :
               (result.vals[r] = NpBool(TRUE))
                 <=> \E i \in 1..(Len(cols) - 1) :
                       /\ isEmpty(value[cols[i]][r])
                       /\ ~isEmpty(value[cols[i + 1]][r])

\* C17: present_on_multiple_rows_within groups the rows by the within column
\* and is true for every row of a group whose size exceeds min_count and false
\* for every row of the other groups; min_count is the comparator, and 1 when
\* the comparator is absent.
C17_TrueOnRowsOfLargeGroups ==
  (pc = "returned" /\ op = "present_on_multiple_rows_within"
     /\ HasCol(value, replace_prefix(arg.target))
     /\ HasCol(value, replace_prefix(arg.within)))
    => LET w == value[replace_prefix(arg.within).s]
           min_count == IF arg.comparator = PyNone THEN 1 ELSE arg.comparator.n
           size(r) == Cardinality({j \in DOMAIN w : w[j] = w[r]})
       IN /\ result.kind = "series"
          /\ DOMAIN result.vals = DOMAIN w
          /\ \A r \in DOMAIN w : (result.vals[r] = NpBool(TRUE)) <=> (size(r) > min_count)

\* C18: is_ordered_set and is_not_ordered_set, given a list as comparator,
\* raise the invalid-argument error (an Exception that carries the message
\* 'Comparator must be a single String value') and leave the table unchanged.
C18_ListComparatorIsRefused ==
  [][(pc = "idle" /\ pc' = "returned"
        /\ op' \in {"is_ordered_set", "is_not_ordered_set"}
        /\ IsList(arg'.comparator))
       => (result' = Raise("Exception") /\ value' = value)]_vars
\* a call of is_not_ordered_set with a list comparator has raised
C18_Witness ==
  /\ pc = "returned" /\ op = "is_not_ordered_set"
  /\ IsList(arg.comparator)
  /\ result = Raise("Exception")

\* C19: SelectMultipleType.shares_exactly_one_element_with returns true iff
\* exactly one of the elements iterated from the other collection is
\* contained in the stored collection (strings compared without regard to
\* case); it is false when none is, and when two or more are, the same
\* matching element given twice included.
C19_SharesExactlyOne ==
  (pc = "returned" /\ self_type = "select_multiple"
     /\ op = "shares_exactly_one_element_with" /\ HasIter(other))
    => LET mine == Iterate(self_value)
           theirs == Iterate(other)
           same(a, b) == IF IsStr(a) /\ IsStr(b) THEN LowerSeq(a.s) = LowerSeq(b.s)
                         ELSE a = b
           matching == {i \in DOMAIN theirs : \E j \in DOMAIN mine : same(mine[j], theirs[i])}
       IN result = Scalar(Cardinality(matching) = 1)
\* the other collection holds a matching element twice, in two cases of letter
C19_Witness ==
  /\ pc = "returned" /\ self_type = "select_multiple"
  /\ op = "shares_exactly_one_element_with"
  /\ self_value = List(<<Str(<<"a">>)>>)
  /\ other = List(<<Str(<<"A">>), Str(<<"a">>)>>)
  /\ result = Scalar(FALSE)

\* C20: the value an instance holds is, after any sequence of operator
\* calls, the one it held right after construction; and on a GenericType
\* built from a number, equal_to with a number compares within EPSILON, as
\* NumericType does, whether or not is_contained_by was called before.
C20_HeldValueIsKept ==
  /\ self_type # ""
       => self_value = assert_valid_value_and_cast(self_type, given).v
  /\ (pc = "returned" /\ self_type = "generic" /\ op = "equal_to"
        /\ given.t \in {"int", "float", "Decimal"}
        /\ other.t \in {"int", "float", "Decimal"})
       => result = Scalar(NumericType_equal_to(
                            GenericType_assert_valid_value_and_cast(given).v,
                            GenericType_assert_valid_value_and_cast(other).v))

\* C21: a comparator given as a list is a literal collection whether or not
\* value_is_literal is set: the comparison data of is_contained_by is the
\* list itself, also when every element of the list names a column.
C21_ListComparatorIsLiteral ==
  (pc = "returned" /\ op = "is_contained_by" /\ IsList(arg.comparator)
     /\ HasCol(value, replace_prefix(arg.target)))
    => get_comparator_data(value, arg.comparator, arg.value_is_literal)
         = LitData(arg.comparator)

\* C22: for has_next_corresponding_record and present_on_multiple_rows_within
\* entry k of the returned column is the verdict for row k of the table, in
\* the table's own row order, also when the groups are interleaved or the
\* rows are not sorted by the ordering column.
C22_EntriesFollowTableRows ==
  /\ (pc = "returned" /\ op = "has_next_corresponding_record"
        /\ \A k \in {"target", "comparator", "within", "ordering"} :
             HasCol(value, replace_prefix(arg[k])))
       => LET t == value[replace_prefix(arg.target).s]
              c == value[replace_prefix(arg.comparator).s]
              sorted == SortIdx(1..NRows(value), value[replace_prefix(arg.ordering).s])
              groups == Groups(value[replace_prefix(arg.within).s], sorted)
              verdict(r) ==
                LET g == CHOOSE h \in DOMAIN groups : r \in Range(groups[h])
                    i == CHOOSE j \in DOMAIN groups[g] : groups[g][j] = r
                IN IF i = Len(groups[g]) THEN NA
                   ELSE NpBool(t[r] = c[groups[g][i + 1]])
          IN /\ result.kind = "series"
             /\ result.vals = [r \in 1..NRows(value) |-> verdict(r)]
  /\ (pc = "returned" /\ op = "present_on_multiple_rows_within"
        /\ HasCol(value, replace_prefix(arg.target))
        /\ HasCol(value, replace_prefix(arg.within)))
       => LET w == value[replace_prefix(arg.within).s]
              \* the count the operator compares with: comparator or 1
              min_count == IF Truthy(arg.comparator) THEN arg.comparator.n ELSE 1
              size(r) == Cardinality({j \in DOMAIN w : w[j] = w[r]})
          IN /\ result.kind = "series"
             /\ result.vals = [r \in DOMAIN w |-> NpBool(size(r) > min_count)]

====
